---- MODULE Spec2Model ----
(***************************************************************************)
(* A model of election-insights: the resumable enrichment loop            *)
(* (src/extract_features.py), the classifier call it makes                 *)
(* (src/modules/openai_request.py), the text sanitizer and the date        *)
(* windows of the fetcher (src/download_tweets.py).                        *)
(*                                                                         *)
(* Tables are sequences of rows.  A CSV file holds raw fields (strings,    *)
(* "" for an empty field); a DataFrame holds typed cells.  pandas infers   *)
(* a column's type when it reads a file: a column whose non-empty fields   *)
(* all look like numbers is read as numbers, any other column as strings,  *)
(* and an empty field as NaN.                                              *)
(*                                                                         *)
(* extract_features.py imports the classifier as OpenAIRequest through     *)
(* the package's __init__; the class with the methods it chains            *)
(* (preprocess_text, extract_features) is ExtractFeatures of               *)
(* modules/openai_request.py, and the model applies that class's           *)
(* per-tweet steps to the one tweet the loop hands over.                   *)
(* The same class applied to a table of several tweets is the fourth      *)
(* part (SpecBatch); main and the script block of download_tweets.py are   *)
(* part of the fetcher (SpecFetch).                                        *)
(***************************************************************************)
EXTENDS Integers, Sequences, FiniteSets, TLC

\* Bounds of the model.
MaxInput == 2
MaxRuns == 3

\* backoff.on_exception(..., max_tries=5)
max_tries == 5

\* Raw fields of tweets.csv.  "7" stands for any text that parses as a number.
TextFields == {"a", "b", "7", ""}
NumericFields == {"7"}
CandidateFields == {"x", ""}
RestFields == {"r", ""}

\* What one attempt of the remote call can do: return a completion that is
\* the JSON object the prompt asks for, return one that is some other JSON
\* value, return one that is not JSON, or raise.
Retryable == {"RateLimitError", "ReadTimeout"}
Parseable == {"json", "json_other"}
Completions == Parseable \cup {"garbage"}
Outcomes == Completions \cup {"RateLimitError", "ReadTimeout", "APIError"}

\* The keys the prompt asks for, with prefix 'tw_'.
PromptKeys == {"tw_valencia", "tw_emocion", "tw_postura", "tw_tono",
               "tw_amabilidad", "tw_legibilidad", "tw_controversialidad",
               "tw_informatividad"}

VARIABLES
    input,       \* data/tweets.csv
    out_file,    \* data/tweets_gpt_features.csv: [exists, rows]
    pc,          \* where FeatureExtraction.extract_features stands
    err,         \* the exception that ended the run, "" if none
    runs,        \* runs started so far
    df_results,  \* the in-memory output table
    work,        \* rows of df_to_process not yet iterated
    workset,     \* df_to_process as computed by this run
    tries,       \* attempts of make_request for the current row
    last,        \* what the latest attempt did
    mr,          \* how make_request ended for the current row
    response,    \* what the classifier handed to the loop
    log,         \* rows of this run whose iteration has finished
    prior,       \* texts checkpointed by earlier runs
    start_file,  \* the output file as this run found it
    completed,   \* an earlier run has run to completion
    prev_end,    \* how the previous run ended, "none" before the first
    n_logged,    \* "Exception during API request" lines logged by this run
    \* DownloadTweets (src/download_tweets.py)
    start_date, end_date, f_pc, f_err, date, dates, ci, wi, f_tries, f_last,
    suffixes, n_requests, collected,
    q_sent,      \* suffixes in the query of the latest search request
    m_pc,        \* where download_tweets.py's main and script block stand
    m_err,       \* the exception that ended the script, "" if none
    printed,     \* the exception main's handler printed, "" if none
    tweets_csv,  \* data/tweets.csv has been written
    users_csv,   \* data/users.csv has been written
    \* ExtractFeatures.remove_emojis_and_links on one input
    s_in, s_text, s_pc,
    \* ExtractFeatures.extract_features over a table of tweets
    b_n,              \* rows of preprocessed_tweets, indexed 1..b_n
    b_i,              \* the row the loop is at
    b_tries,          \* attempts of make_request for that row
    collector,        \* the frames collected so far
    b_log,            \* how the call ended for each row done
    expanded_tweets,  \* the table returned
    b_pc

evars == <<input, out_file, pc, err, runs, df_results, work, workset, tries,
           last, mr, response, log, prior, start_file, completed, prev_end,
           n_logged>>

mvars == <<m_pc, m_err, printed, tweets_csv, users_csv>>

fvars == <<start_date, end_date, f_pc, f_err, date, dates, ci, wi, f_tries,
           f_last, suffixes, n_requests, collected, q_sent, mvars>>

svars == <<s_in, s_text, s_pc>>

bvars == <<b_n, b_i, b_tries, collector, b_log, expanded_tweets, b_pc>>

vars == <<evars, fvars, svars, bvars>>

SeqsUpTo(S, n) == UNION {[1..k -> S] : k \in 0..n}

NaN == [t |-> "nan", v |-> ""]

\* The rows of df at the indices in keep, in order (boolean indexing).
Pick(df, keep) ==
    LET F[i \in 0..Len(df)] ==
            IF i = 0 THEN <<>>
            ELSE IF i \in keep THEN Append(F[i - 1], df[i]) ELSE F[i - 1]
    IN F[Len(df)]

\* pandas' type inference for one column of a file.
IsNumericColumn(fields) ==
    /\ \E i \in DOMAIN fields : fields[i] # ""
    /\ \A i \in DOMAIN fields : fields[i] = "" \/ fields[i] \in NumericFields

Cell(f, numeric) ==
    IF f = "" THEN NaN ELSE [t |-> IF numeric THEN "num" ELSE "str", v |-> f]

\* pd.read_csv: the text column is typed by inference.
read_csv(rows) ==
    LET numeric == IsNumericColumn([i \in DOMAIN rows |-> rows[i].tw_texto])
    IN [i \in DOMAIN rows |-> [rows[i] EXCEPT !.tw_texto = Cell(@, numeric)]]

\* df.drop_duplicates(subset=['tw_texto'], keep='first')
drop_duplicates(df) ==
    Pick(df, {i \in DOMAIN df :
                \A j \in 1..(i - 1) : df[j].tw_texto # df[i].tw_texto})

\* df['tw_texto'].isin(df_results['tw_texto']): equality of typed cells.
isin(cell, results) == \E j \in DOMAIN results : results[j].tw_texto = cell

\* df[~df['tw_texto'].isin(df_results['tw_texto'])]
not_in_results(df, results) ==
    Pick(df, {i \in DOMAIN df : ~isin(df[i].tw_texto, results)})

\* df_to_process.dropna(): a row with NaN in any column goes.
dropna(df) ==
    Pick(df, {i \in DOMAIN df :
                /\ df[i].tw_texto # NaN
                /\ df[i].candidato # ""
                /\ df[i].rest # ""})

\* A write that misses the row appended last.
to_csv_stale(df) ==
    [exists |-> TRUE,
     rows |-> [i \in 1..(Len(df) - 1) |-> [df[i] EXCEPT !.tw_texto = @.v]]]

\* df_results.to_csv(path, index=False): every cell is written as text.
to_csv(df) ==
    [exists |-> TRUE,
     rows |-> [i \in DOMAIN df |-> [df[i] EXCEPT !.tw_texto = @.v]]]

\* pd.concat([df_results, df_result])
concat(df, row) == Append(df, row)

\* json.loads(response) followed by pd.DataFrame([response]): the frame has
\* the columns and the values of whatever object the completion held.
\* Numbers are in tenths: 5 is 0.5, 17 is 1.7.
json_loads(completion) ==
    IF completion = "json" THEN "features"
    ELSE IF completion = "json_other" THEN "other"
    ELSE "JSONDecodeError"

columns(resp) ==
    IF resp = "features" THEN PromptKeys
    ELSE IF resp = "other" THEN {"sentimiento", "tw_amabilidad"}
    ELSE {}

numbers(resp) ==
    IF resp = "features" THEN {5}
    ELSE IF resp = "other" THEN {17}
    ELSE {}

\* The row the loop builds from a response: the response's columns, then
\* tw_texto and tw_candidate.
result_row(tweet, candidate, resp) ==
    [tw_texto |-> tweet, tw_candidate |-> candidate,
     keys |-> columns(resp), nums |-> numbers(resp)]

\* A retry loop that stops one attempt late.
gives_up_late(exc, n) == exc \notin Retryable \/ n > max_tries

\* backoff.on_exception(expo, (RateLimitError, ReadTimeout), max_tries=5):
\* an exception raised at attempt n is retried unless it is of another class
\* or n has reached max_tries.
gives_up(exc, n) == exc \notin Retryable \/ n >= max_tries

\* A handler for the exceptions of the request only.
caught_request_only(exc) == exc # "JSONDecodeError"

\* A handler for parse failures only.
caught_parse_only(exc) == exc = "JSONDecodeError"

\* except Exception as e: every exception of the try block is handled.
caught(exc) == TRUE

\* ExtractFeatures.remove_emojis_and_links needs a str: re's sub raises
\* TypeError on anything else.
is_str(cell) == cell.t = "str"

Absent == [exists |-> FALSE, rows |-> <<>>]
HeaderOnly == [exists |-> TRUE, rows |-> <<>>]

InputRows == [tw_texto : TextFields, candidato : CandidateFields, rest : RestFields]

\* ------------------------------------------------------------ the fetcher

\* Ticks of the model's clock in one day.
TicksPerDay == 2
\* delta = timedelta(days=1)
delta == TicksPerDay
\* Start and end dates range over 0..MaxT ticks.
MaxT == 5
\* GetTweets.make_request: backoff.on_exception(..., max_tries=5)
f_max_tries == 5

candidates == <<"sandra torres", "zury rios">>

FRetryable == {"TooManyRequests", "ReadTimeout"}
FOutcomes == {"tweets", "empty", "TooManyRequests", "ReadTimeout", "HTTPError"}

\* A start or end date: a datetime at tick t, or something that is no datetime.
DateArgs == {[dt |-> TRUE, t |-> t] : t \in 0..MaxT} \cup {[dt |-> FALSE, t |-> 0]}

\* date.isoformat() + "Z": the calendar day, the time of day, the suffix.
isoformat_Z(t) == [day |-> t \div delta, time |-> t % delta, z |-> "Z"]

\* A loop that also runs when date has reached the end.
more_dates_inclusive(d, end) == d <= end

\* The while loop's condition of generate_dates.
more_dates(d, end) == d < end

\* backoff around GetTweets.make_request.
f_gives_up(exc, n) == exc \notin FRetryable \/ n >= f_max_tries

\* An unpacking that takes None for a pair of empty tables.
unpack_lenient(ret) == "ok"

\* tweets, users = main(): None cannot be unpacked.
unpack(ret) == IF ret = "returned_none" THEN "TypeError" ELSE "ok"

\* ---------------------------------------------------------- the sanitizer

\* Longest text handed to the sanitizer.
MaxLen == 3

\* A text is a sequence of these: the scheme "http://" (or "https://"), a
\* letter, a space, a newline, an emoji.
Chars == {"http://", "x", " ", "\n", "E"}
\* What the URL pattern's group matches: letters, digits and the punctuation
\* of [$-_@.&+] and [!*\(\),], so also every character of a scheme.
UrlBody == {"http://", "x"}
Emojis == {"E"}

SanitizerInputs ==
    {[kind |-> "str", chars |-> c] : c \in SeqsUpTo(Chars, MaxLen)}
        \cup {[kind |-> "float", chars |-> <<>>], [kind |-> "int", chars |-> <<>>]}

RECURSIVE skip_body(_)
skip_body(s) ==
    IF s # <<>> /\ Head(s) \in UrlBody THEN skip_body(Tail(s)) ELSE s

\* url_pattern.sub('', text): leftmost, greedy, non-overlapping matches of
\* scheme followed by one or more body characters.
RECURSIVE url_sub(_)
url_sub(s) ==
    IF s = <<>> THEN <<>>
    ELSE IF Head(s) = "http://" /\ Len(s) >= 2 /\ s[2] \in UrlBody
         THEN url_sub(skip_body(Tail(s)))
         ELSE <<Head(s)>> \o url_sub(Tail(s))

\* emoji_pattern.sub('', text)
emoji_sub(s) == SelectSeq(s, LAMBDA c : c \notin Emojis)

\* text.replace('\n', ' ')
replace_newlines(s) == [i \in DOMAIN s |-> IF s[i] = "\n" THEN " " ELSE s[i]]

\* re.Pattern.sub accepts a str (or bytes) only.
sub_accepts(x) == x.kind = "str"

\* ------------------------------------------------- a table of tweets

\* Longest table handed to ExtractFeatures.
MaxTweets == 3

\* pd.DataFrame([response]): one row, holding what tweet i's completion held.
one_row(i, resp) == <<[of |-> i, keys |-> columns(resp), nums |-> numbers(resp)]>>

\* pd.DataFrame(): no row.
empty_frame == <<>>

\* pd.concat(collector, axis=0, ignore_index=True): the frames' rows one
\* after the other, numbered anew from the first.
RECURSIVE concat_rows(_)
concat_rows(frames) ==
    IF frames = <<>> THEN <<>> ELSE Head(frames) \o concat_rows(Tail(frames))

NoFeatures == [of |-> 0, keys |-> {}, nums |-> {}]

\* pd.concat([preprocessed_tweets, new_features], axis=1): rows are paired by
\* index label; a tweet whose label new_features lacks gets NaN.
concat_columns(n, new_features) ==
    [i \in 1..n |->
        [tweet |-> i,
         features |-> IF i <= Len(new_features) THEN new_features[i]
                      ELSE NoFeatures]]

\* ------------------------------------------------------------ initial states

EInit ==
    /\ input \in SeqsUpTo(InputRows, MaxInput)
    /\ out_file \in {Absent, HeaderOnly}
    /\ pc = "idle"
    /\ err = ""
    /\ runs = 0
    /\ df_results = <<>>
    /\ work = <<>>
    /\ workset = <<>>
    /\ tries = 0
    /\ last = "none"
    /\ mr = "none"
    /\ response = "none"
    /\ log = <<>>
    /\ prior = {}
    /\ start_file = out_file
    /\ completed = FALSE
    /\ prev_end = "none"
    /\ n_logged = 0

FRest ==
    /\ f_pc = "idle"
    /\ f_err = ""
    /\ date = 0
    /\ dates = <<>>
    /\ ci = 1
    /\ wi = 1
    /\ f_tries = 0
    /\ f_last = "none"
    /\ suffixes = 0
    /\ n_requests = 0
    /\ collected = 0
    /\ q_sent = 0
    /\ m_pc = "main" /\ m_err = "" /\ printed = ""
    /\ tweets_csv = FALSE /\ users_csv = FALSE

FInit ==
    /\ start_date \in DateArgs
    /\ end_date \in DateArgs
    /\ FRest

SRest ==
    /\ s_text = <<>>
    /\ s_pc = "start"

SInit ==
    /\ s_in \in SanitizerInputs
    /\ SRest

\* The parts a specification does not exercise stand still in one state.
EQuiet ==
    /\ input = <<>>
    /\ out_file = Absent
    /\ pc = "idle" /\ err = "" /\ runs = MaxRuns
    /\ df_results = <<>> /\ work = <<>> /\ workset = <<>>
    /\ tries = 0 /\ last = "none" /\ mr = "none" /\ response = "none"
    /\ log = <<>> /\ prior = {} /\ start_file = Absent
    /\ completed = FALSE /\ prev_end = "none" /\ n_logged = 0

FQuiet ==
    /\ start_date = [dt |-> TRUE, t |-> 0]
    /\ end_date = [dt |-> TRUE, t |-> 0]
    /\ FRest

SQuiet ==
    /\ s_in = [kind |-> "str", chars |-> <<>>]
    /\ SRest

BRest ==
    /\ b_i = 1 /\ b_tries = 0
    /\ collector = <<>> /\ b_log = <<>> /\ expanded_tweets = <<>>

BInit ==
    /\ b_n \in 0..MaxTweets
    /\ b_pc = "loop"
    /\ BRest

BQuiet ==
    /\ b_n = 0
    /\ b_pc = "off"
    /\ BRest

Init == EInit /\ FQuiet /\ SQuiet /\ BQuiet

\* ------------------------------------------------- the enrichment loop

\* Lines 31-44: Load and Diff.
StartRun ==
    /\ pc \in {"idle", "done", "raised", "killed"}
    /\ runs < MaxRuns
    /\ runs' = runs + 1
    /\ prior' = prior \cup {log[i].tw_texto : i \in DOMAIN log}
    /\ completed' = (completed \/ pc = "done")
    /\ prev_end' = (IF pc = "idle" THEN "none" ELSE pc)
    /\ start_file' = out_file
    /\ log' = <<>>
    /\ n_logged' = 0
    /\ tries' = 0 /\ last' = "none" /\ mr' = "none" /\ response' = "none"
    /\ LET df == drop_duplicates(read_csv(input)) IN
       IF ~out_file.exists
       THEN \* df_results = pd.DataFrame(), and df_results['tw_texto'] raises
            /\ pc' = "raised" /\ err' = "KeyError"
            /\ df_results' = <<>> /\ work' = <<>> /\ workset' = <<>>
       ELSE LET res == drop_duplicates(read_csv(out_file.rows))
                todo == dropna(not_in_results(df, res))
            IN /\ pc' = "loop" /\ err' = ""
               /\ df_results' = res /\ work' = todo /\ workset' = todo
    /\ UNCHANGED <<input, out_file>>
    /\ UNCHANGED <<fvars, svars, bvars>>

\* Lines 47-56, preprocess_text: the tweet is sanitized before any request.
Preprocess ==
    /\ pc = "loop" /\ work # <<>>
    /\ IF is_str(Head(work).tw_texto)
       THEN pc' = "request" /\ err' = ""
       ELSE pc' = "raised" /\ err' = "TypeError"
    /\ UNCHANGED <<input, out_file, runs, df_results, work, workset, tries,
                   last, mr, response, log, prior, start_file, completed,
                   prev_end, n_logged>>
    /\ UNCHANGED <<fvars, svars, bvars>>

\* One attempt of make_request inside extract_features' try block
\* (openai_request.py, lines 124-135).
Attempt(o) ==
    /\ pc = "request"
    /\ tries' = tries + 1
    /\ last' = o
    /\ IF o \in Completions
       THEN \* make_request returns the completion; json.loads parses it
            /\ mr' = "returned"
            /\ IF o \in Parseable
               THEN /\ pc' = "got" /\ response' = json_loads(o) /\ err' = ""
                    /\ n_logged' = n_logged
               ELSE IF caught("JSONDecodeError")
                    THEN /\ pc' = "got" /\ response' = "empty" /\ err' = ""
                         /\ n_logged' = n_logged + 1
                    ELSE /\ pc' = "raised" /\ response' = "none"
                         /\ err' = "JSONDecodeError" /\ n_logged' = n_logged
       ELSE IF gives_up(o, tries + 1)
            THEN /\ mr' = "raised"
                 /\ IF caught(o)
                    THEN /\ pc' = "got" /\ response' = "empty" /\ err' = ""
                         /\ n_logged' = n_logged + 1
                    ELSE /\ pc' = "raised" /\ response' = "none" /\ err' = o
                         /\ n_logged' = n_logged
            ELSE \* backoff sleeps and calls again
                 /\ mr' = "none" /\ pc' = "request" /\ response' = "none"
                 /\ err' = "" /\ n_logged' = n_logged
    /\ UNCHANGED <<input, out_file, runs, df_results, work, workset, log,
                   prior, start_file, completed, prev_end>>
    /\ UNCHANGED <<fvars, svars, bvars>>

\* Lines 59-74: build the row, append it, write the whole table.
Checkpoint ==
    /\ pc = "got"
    /\ LET row == Head(work)
           new == concat(df_results,
                         result_row(row.tw_texto, row.candidato, response))
       IN /\ df_results' = new
          /\ out_file' = to_csv(new)
          /\ log' = Append(log, [tw_texto |-> row.tw_texto, outcome |-> last])
    /\ work' = Tail(work)
    /\ pc' = "loop"
    /\ tries' = 0 /\ last' = "none" /\ mr' = "none" /\ response' = "none"
    /\ UNCHANGED <<input, err, runs, workset, prior, start_file, completed,
                   prev_end, n_logged>>
    /\ UNCHANGED <<fvars, svars, bvars>>

\* The for loop runs out of rows.
Finish ==
    /\ pc = "loop" /\ work = <<>>
    /\ pc' = "done"
    /\ UNCHANGED <<input, out_file, err, runs, df_results, work, workset,
                   tries, last, mr, response, log, prior, start_file,
                   completed, prev_end, n_logged>>
    /\ UNCHANGED <<fvars, svars, bvars>>

\* The process is stopped from outside; only the file survives.
Interrupt ==
    /\ pc \in {"loop", "request", "got"}
    /\ pc' = "killed"
    /\ df_results' = <<>>
    /\ work' = <<>>
    /\ tries' = 0 /\ last' = "none" /\ mr' = "none" /\ response' = "none"
    /\ UNCHANGED <<input, out_file, err, runs, workset, log, prior,
                   start_file, completed, prev_end, n_logged>>
    /\ UNCHANGED <<fvars, svars, bvars>>

Next ==
    \/ StartRun
    \/ Preprocess
    \/ \E o \in Outcomes : Attempt(o)
    \/ Checkpoint
    \/ Finish
    \/ Interrupt

Spec == Init /\ [][Next]_vars

\* ------------------------------------------------------------ properties

\* The texts this run has sent to the classifier, in order.
Submitted ==
    [i \in DOMAIN log |-> log[i].tw_texto]
        \o (IF pc \in {"request", "got"} /\ tries >= 1
            THEN <<Head(work).tw_texto>> ELSE <<>>)

\* The text fields of a file's rows.
FileTexts(file) == {file.rows[i].tw_texto : i \in DOMAIN file.rows}

\* The file holds a row for this text.
Persisted(cell) == cell.v \in FileTexts(out_file)

\* The deduplicated input records with every field present.
Complete == dropna(drop_duplicates(read_csv(input)))

\* Those among them whose text the file does not hold.
Remaining(file) ==
    Pick(Complete, {i \in DOMAIN Complete :
                      Complete[i].tw_texto.v \notin FileTexts(file)})

NoDuplicateTexts(file) ==
    \A i, j \in DOMAIN file.rows :
        file.rows[i].tw_texto = file.rows[j].tw_texto => i = j

\* C1: a run restarted after an interrupted one submits exactly the input
\* records whose text the persisted output does not hold yet, and submits
\* none of the records that an earlier run had processed and checkpointed.
C1_ResumeSubmitsOnlyRemaining ==
    prev_end = "killed" =>
        /\ \A i \in DOMAIN Submitted : Submitted[i] \notin prior
        /\ pc = "done" =>
              Submitted = [i \in DOMAIN Remaining(start_file) |->
                             Remaining(start_file)[i].tw_texto]

\* C2: once a run has completed over the input, a later run over the same
\* input makes no classifier call and leaves the output file as it was.
C2_SecondRunIsNoOp ==
    completed => (Submitted = <<>> /\ out_file = start_file)

\* C4: when a pass has completed, no two rows of the persisted output table
\* hold the same text.
C4_NoDuplicateTextsAfterPass ==
    pc = "done" => NoDuplicateTexts(out_file)

\* C7: a run that finds no output file does not fail in Load or Diff: it
\* starts from an empty output table and takes every deduplicated input
\* record as its work set.
C7_FirstRunProceeds ==
    (runs > 0 /\ ~start_file.exists) =>
        (pc # "raised" /\ workset = Complete)

\* Every row the run found in the file is still in it.
KeepsEarlierRows == FileTexts(start_file) \subseteq FileTexts(out_file)

\* The rows of the work set whose iteration has begun.
Started ==
    {log[i].tw_texto : i \in DOMAIN log}
        \cup (IF pc \in {"request", "got"} THEN {Head(work).tw_texto} ELSE {})

C5_BoundedRetry ==
    /\ tries <= 5
    /\ (pc = "request" /\ tries >= 1) => last \in {"RateLimitError", "ReadTimeout"}
    /\ last \in Completions => (mr = "returned" /\ pc # "request")
    /\ (last \in {"RateLimitError", "ReadTimeout"} /\ tries = 5) =>
          (mr = "raised" /\ pc # "request")
    /\ (last \in {"RateLimitError", "ReadTimeout"} /\ tries < 5) =>
          (mr = "none" /\ pc = "request")
    /\ last = "APIError" => (mr = "raised" /\ pc # "request")

\* Four transient failures, then the fifth attempt's completion is returned.
C5_Witness == tries = 5 /\ last = "json" /\ mr = "returned" /\ response = "features"

\* Every record of the work set has been processed and checkpointed.
AllProcessed ==
    /\ [i \in DOMAIN log |-> log[i].tw_texto] =
           [i \in DOMAIN workset |-> workset[i].tw_texto]
    /\ \A i \in DOMAIN log : Persisted(log[i].tw_texto)

\* C6: a completion that does not parse is a failure of that record only: it
\* is logged, no further request is made for the record, the run goes on,
\* and a run that reaches its end has processed and checkpointed every
\* record of its work set.
C6_MalformedIsPerRecord ==
    /\ last = "garbage" =>
          (pc = "got" /\ response = "empty" /\ err = "" /\ n_logged >= 1)
    /\ (\E i \in DOMAIN log : log[i].outcome = "garbage") =>
          (pc # "raised" /\ n_logged >= 1)
    /\ (pc = "loop" /\ \E i \in DOMAIN log : log[i].outcome = "garbage") =>
          Len(log) + Len(work) = Len(workset)
    /\ pc = "done" => AllProcessed

\* A run has ended after a malformed completion on an earlier record and a
\* classified later record.
C6_Witness ==
    /\ pc = "done"
    /\ \E i, j \in DOMAIN log :
          i < j /\ log[i].outcome = "garbage" /\ log[j].outcome = "json"

\* C8 as stated: an exception of the remote call that is neither transient
\* nor a parse failure is propagated and ends the run, no later record being
\* processed, and the file keeps the rows checkpointed before.
C8_FatalErrorAbortsRun ==
    /\ last = "APIError" => (pc = "raised" /\ err = "APIError")
    /\ \A i \in DOMAIN log : log[i].outcome # "APIError"
    /\ KeepsEarlierRows

\* C8 as amended: such an exception leaves make_request after that one
\* attempt, is caught and logged by the classifier's extract_features, and
\* counts as a failure of that record only: the run goes on with the later
\* records, and the file keeps every row checkpointed before.
C8_FatalErrorIsPerRecord ==
    /\ last = "APIError" =>
          (mr = "raised" /\ pc = "got" /\ response = "empty" /\ err = ""
           /\ n_logged >= 1)
    /\ (\E i \in DOMAIN log : log[i].outcome = "APIError") =>
          (pc # "raised" /\ n_logged >= 1)
    /\ (pc = "loop" /\ \E i \in DOMAIN log : log[i].outcome = "APIError") =>
          Len(log) + Len(work) = Len(workset)
    /\ (pc = "done" /\ \E i \in DOMAIN log : log[i].outcome = "APIError") =>
          AllProcessed
    /\ KeepsEarlierRows
    /\ \A i \in DOMAIN log : Persisted(log[i].tw_texto)

\* A run has ended after such an exception on an earlier record and a
\* classified later record.
C8_Witness ==
    /\ pc = "done"
    /\ \E i, j \in DOMAIN log :
          i < j /\ log[i].outcome = "APIError" /\ log[j].outcome = "json"

\* A row without classification fields, as built from pd.DataFrame().
IsPlaceholder(row) == row.keys = {} /\ row.nums = {}

\* A row with exactly the keys of the prompt and every number in [0.0, 1.0].
FollowsSchema(row) ==
    /\ row.keys = PromptKeys
    /\ \A n \in row.nums : 0 <= n /\ n <= 10

\* C11: every row of the output table that was built from a parsed
\* completion carries exactly the prefixed keys named in the prompt, and
\* every number in it lies in [0.0, 1.0], whatever object the completion
\* held; the other rows are the placeholders of failed records.
C11_SchemaStability ==
    /\ (pc = "got" /\ last \in Parseable) =>
          FollowsSchema(result_row(Head(work).tw_texto, Head(work).candidato,
                                   response))
    /\ \A i \in DOMAIN out_file.rows :
          IsPlaceholder(out_file.rows[i]) \/ FollowsSchema(out_file.rows[i])

\* The deduplicated input records.
Deduplicated == drop_duplicates(read_csv(input))

\* The fields the loop reads: the text and the candidate label.
HasRequiredFields(row) == row.tw_texto # NaN /\ row.candidato # ""

\* C14: the work set of a run that found an output file is exactly the
\* deduplicated input records whose text the file does not hold and whose
\* text and candidate label are both present, in input order; a record
\* lacking one of the two is never submitted and gets no row, and does not
\* stop the run.
C14_WorkSetSelection ==
    (runs > 0 /\ start_file.exists) =>
        /\ workset =
              Pick(Deduplicated,
                   {i \in DOMAIN Deduplicated :
                      /\ HasRequiredFields(Deduplicated[i])
                      /\ Deduplicated[i].tw_texto.v \notin FileTexts(start_file)})
        /\ \A i \in DOMAIN Submitted :
              \E j \in DOMAIN Deduplicated :
                 /\ Deduplicated[j].tw_texto = Submitted[i]
                 /\ HasRequiredFields(Deduplicated[j])
        /\ (\A i \in DOMAIN Deduplicated : is_str(Deduplicated[i].tw_texto)
                                           \/ Deduplicated[i].tw_texto = NaN)
              => pc # "raised"

\* The texts of the placeholder rows a run found in the file: the records
\* whose classifier call failed in an earlier run.
FailedBefore ==
    {start_file.rows[i].tw_texto :
        i \in {j \in DOMAIN start_file.rows : IsPlaceholder(start_file.rows[j])}}

\* C18: a record whose call failed and whose placeholder row was
\* checkpointed is in the work set of no later run over the same input and
\* is never submitted again.
C18_HandledFailureIsPermanent ==
    /\ \A i \in DOMAIN workset : workset[i].tw_texto.v \notin FailedBefore
    /\ \A i \in DOMAIN Submitted : Submitted[i].v \notin FailedBefore

\* ------------------------------------------------------ download_tweets

\* generate_dates, lines 48-57: the checks, then the loop's start.
GenerateDates ==
    /\ f_pc = "idle"
    /\ IF ~start_date.dt \/ ~end_date.dt
       THEN f_pc' = "raised" /\ f_err' = "TypeError" /\ date' = date
       ELSE IF start_date.t > end_date.t
            THEN f_pc' = "raised" /\ f_err' = "ValueError" /\ date' = date
            ELSE f_pc' = "gen" /\ f_err' = "" /\ date' = start_date.t
    /\ dates' = <<>>
    /\ UNCHANGED <<start_date, end_date, ci, wi, f_tries, f_last, suffixes,
                   n_requests, collected, q_sent>>
    /\ UNCHANGED mvars
    /\ UNCHANGED <<evars, svars, bvars>>

\* One turn of the while loop, lines 60-65.
GenStep ==
    /\ f_pc = "gen"
    /\ more_dates(date, end_date.t)
    /\ dates' = Append(dates, <<isoformat_Z(date), isoformat_Z(date + delta)>>)
    /\ date' = date + delta
    /\ UNCHANGED <<start_date, end_date, f_pc, f_err, ci, wi, f_tries, f_last,
                   suffixes, n_requests, collected, q_sent>>
    /\ UNCHANGED mvars
    /\ UNCHANGED <<evars, svars, bvars>>

\* The while loop ends; download_tweets enters its loops.
GenDone ==
    /\ f_pc = "gen"
    /\ ~more_dates(date, end_date.t)
    /\ f_pc' = "loop"
    /\ ci' = 1 /\ wi' = 1
    /\ UNCHANGED <<start_date, end_date, f_err, date, dates, f_tries, f_last,
                   suffixes, n_requests, collected, q_sent>>
    /\ UNCHANGED mvars
    /\ UNCHANGED <<evars, svars, bvars>>

\* get_batch for one (candidate, window): one attempt of
\* GetTweets.make_request, and on its return the reshaping chain.
GetBatch(o) ==
    /\ f_pc = "loop"
    /\ ci <= Len(candidates) /\ wi <= Len(dates)
    /\ n_requests' = n_requests + 1
    /\ f_last' = o
    /\ q_sent' = suffixes + 1
    /\ IF o = "tweets"
       THEN /\ collected' = collected + 1
            /\ wi' = wi + 1
            /\ f_tries' = 0 /\ suffixes' = 0
            /\ f_pc' = "loop" /\ f_err' = ""
       ELSE IF o = "empty"
            THEN \* make_request returns; tweets_to_dataframe iterates None
                 /\ f_pc' = "raised" /\ f_err' = "TypeError"
                 /\ f_tries' = f_tries + 1 /\ suffixes' = suffixes + 1
                 /\ UNCHANGED <<wi, collected>>
            ELSE IF f_gives_up(o, f_tries + 1)
                 THEN /\ f_pc' = "raised" /\ f_err' = o
                      /\ f_tries' = f_tries + 1 /\ suffixes' = suffixes + 1
                      /\ UNCHANGED <<wi, collected>>
                 ELSE /\ f_pc' = "loop" /\ f_err' = ""
                      /\ f_tries' = f_tries + 1 /\ suffixes' = suffixes + 1
                      /\ UNCHANGED <<wi, collected>>
    /\ UNCHANGED <<start_date, end_date, date, dates, ci>>
    /\ UNCHANGED mvars
    /\ UNCHANGED <<evars, svars, bvars>>

\* Lines 132-133: the candidate's batches are concatenated.
NextCandidate ==
    /\ f_pc = "loop"
    /\ ci <= Len(candidates) /\ wi > Len(dates)
    /\ IF dates = <<>>
       THEN \* pd.concat([]) raises
            f_pc' = "raised" /\ f_err' = "ValueError" /\ ci' = ci /\ wi' = wi
       ELSE f_pc' = "loop" /\ f_err' = "" /\ ci' = ci + 1 /\ wi' = 1
    /\ UNCHANGED <<start_date, end_date, date, dates, f_tries, f_last,
                   suffixes, n_requests, collected, q_sent>>
    /\ UNCHANGED mvars
    /\ UNCHANGED <<evars, svars, bvars>>

\* Lines 135-138.
DownloadDone ==
    /\ f_pc = "loop"
    /\ ci > Len(candidates)
    /\ f_pc' = "returned"
    /\ UNCHANGED <<start_date, end_date, f_err, date, dates, ci, wi, f_tries,
                   f_last, suffixes, n_requests, collected, q_sent>>
    /\ UNCHANGED mvars
    /\ UNCHANGED <<evars, svars, bvars>>

\* main, lines 151-152: download_tweets has returned its two tables.
MainReturn ==
    /\ m_pc = "main" /\ f_pc = "returned"
    /\ m_pc' = "returned_tuple"
    /\ UNCHANGED <<m_err, printed, tweets_csv, users_csv>>
    /\ UNCHANGED <<start_date, end_date, f_pc, f_err, date, dates, ci, wi,
                   f_tries, f_last, suffixes, n_requests, collected, q_sent>>
    /\ UNCHANGED <<evars, svars, bvars>>

\* main, lines 154-155: the handler prints the exception; main ends without
\* a return statement, so it returns None.
MainExcept ==
    /\ m_pc = "main" /\ f_pc = "raised"
    /\ printed' = f_err
    /\ m_pc' = "returned_none"
    /\ UNCHANGED <<m_err, tweets_csv, users_csv>>
    /\ UNCHANGED <<start_date, end_date, f_pc, f_err, date, dates, ci, wi,
                   f_tries, f_last, suffixes, n_requests, collected, q_sent>>
    /\ UNCHANGED <<evars, svars, bvars>>

\* The script block, line 161.
ScriptUnpack ==
    /\ m_pc \in {"returned_tuple", "returned_none"}
    /\ IF unpack(m_pc) = "ok"
       THEN m_pc' = "save_tweets" /\ m_err' = ""
       ELSE m_pc' = "raised" /\ m_err' = unpack(m_pc)
    /\ UNCHANGED <<printed, tweets_csv, users_csv>>
    /\ UNCHANGED <<start_date, end_date, f_pc, f_err, date, dates, ci, wi,
                   f_tries, f_last, suffixes, n_requests, collected, q_sent>>
    /\ UNCHANGED <<evars, svars, bvars>>

\* Lines 164-169: the data folder, then tweets.to_csv.
SaveTweets ==
    /\ m_pc = "save_tweets"
    /\ tweets_csv' = TRUE
    /\ m_pc' = "save_users"
    /\ UNCHANGED <<m_err, printed, users_csv>>
    /\ UNCHANGED <<start_date, end_date, f_pc, f_err, date, dates, ci, wi,
                   f_tries, f_last, suffixes, n_requests, collected, q_sent>>
    /\ UNCHANGED <<evars, svars, bvars>>

\* Line 170: users.to_csv, and the script ends.
SaveUsers ==
    /\ m_pc = "save_users"
    /\ users_csv' = TRUE
    /\ m_pc' = "exit"
    /\ UNCHANGED <<m_err, printed, tweets_csv>>
    /\ UNCHANGED <<start_date, end_date, f_pc, f_err, date, dates, ci, wi,
                   f_tries, f_last, suffixes, n_requests, collected, q_sent>>
    /\ UNCHANGED <<evars, svars, bvars>>

\* The instant a formatted date denotes.
Instant(f) == f.day * delta + f.time

CeilDiv(n, d) == (n + d - 1) \div d

\* C9: for start <= end generate_dates yields ceil((end - start) / 1 day)
\* windows, the first beginning at start, each one day long, each ending where
\* the next begins; for start > end it raises, and download_tweets has sent
\* no search request.
C9_WindowGeneration ==
    /\ (start_date.dt /\ end_date.dt /\ start_date.t <= end_date.t
        /\ f_pc \in {"loop", "returned", "raised"}) =>
          /\ Len(dates) = CeilDiv(end_date.t - start_date.t, delta)
          /\ dates # <<>> => Instant(dates[1][1]) = start_date.t
          /\ \A i \in DOMAIN dates :
                Instant(dates[i][2]) - Instant(dates[i][1]) = delta
          /\ \A i \in 1..(Len(dates) - 1) : dates[i][2] = dates[i + 1][1]
    /\ (start_date.dt /\ end_date.dt /\ start_date.t > end_date.t
        /\ f_pc # "idle") =>
          (f_pc = "raised" /\ f_err = "ValueError" /\ n_requests = 0
           /\ dates = <<>>)

\* Two and a half days have been cut into three windows and the requests
\* have begun.
C9_Witness ==
    /\ f_pc = "loop"
    /\ end_date.t - start_date.t = 2 * delta + 1
    /\ Len(dates) = 3
    /\ n_requests > 0

\* C12: a failure inside main of download_tweets.py is logged and raised
\* again, so whoever called main sees that exception and never a normal
\* return.
C12_MainReraises ==
    (f_pc = "raised" /\ m_pc # "main") =>
        (m_pc = "main_raised" /\ m_err = f_err /\ printed = f_err)

\* Every (candidate, window) pair has had its request answered with tweets.
AllPairsDone ==
    /\ f_pc = "returned"
    /\ ci > Len(candidates)
    /\ collected = Len(candidates) * Len(dates)

\* C13: the two tables are written only after download_tweets has returned
\* with every (candidate, window) pair's request completed, tweets before
\* users; once a request has failed with a non-retryable exception or with
\* its fifth transient failure, the script can only end with an exception
\* and neither table is ever written.
C13_PersistOnceAtEnd ==
    /\ (tweets_csv \/ users_csv) => AllPairsDone
    /\ users_csv => tweets_csv
    /\ m_pc \in {"save_tweets", "save_users", "exit"} => AllPairsDone
    /\ f_pc = "raised" =>
          /\ ~tweets_csv /\ ~users_csv
          /\ m_pc \in {"main", "returned_none", "raised"}
          /\ m_pc = "raised" => m_err = "TypeError"
    /\ (f_pc = "raised" /\ f_err \in FRetryable) => f_tries = f_max_tries

\* A fifth transient failure has ended the run after the requests of other
\* pairs had returned tweets, and nothing was written.
C13_Witness ==
    /\ m_pc = "raised"
    /\ f_err \in FRetryable /\ f_tries = f_max_tries
    /\ collected > 0
    /\ ~tweets_csv /\ ~users_csv

\* C15: every search request, a retry included, carries the caller's query
\* followed by ' -is:retweet -is:reply' exactly once.
C15_SuffixOnce ==
    n_requests > 0 => q_sent = 1

\* C17: a search that returns no tweet does not end the fetch: the pair
\* contributes no row and download_tweets goes on with the next pair.
C17_EmptyResultContinues ==
    f_last = "empty" => (f_pc # "raised" /\ f_err = "" /\ m_pc = "main")

FNext ==
    \/ GenerateDates
    \/ GenStep
    \/ GenDone
    \/ \E o \in FOutcomes : GetBatch(o)
    \/ NextCandidate
    \/ DownloadDone
    \/ MainReturn
    \/ MainExcept
    \/ ScriptUnpack
    \/ SaveTweets
    \/ SaveUsers

InitFetch == EQuiet /\ FInit /\ SQuiet /\ BQuiet

SpecFetch == InitFetch /\ [][FNext]_vars

\* ------------------------------------------- remove_emojis_and_links

RemoveUrls ==
    /\ s_pc = "start"
    /\ IF sub_accepts(s_in)
       THEN s_pc' = "urls" /\ s_text' = url_sub(s_in.chars)
       ELSE s_pc' = "raised" /\ s_text' = s_text
    /\ UNCHANGED s_in
    /\ UNCHANGED <<evars, fvars, bvars>>

RemoveEmojis ==
    /\ s_pc = "urls"
    /\ s_pc' = "emojis"
    /\ s_text' = emoji_sub(s_text)
    /\ UNCHANGED s_in
    /\ UNCHANGED <<evars, fvars, bvars>>

ReplaceNewlines ==
    /\ s_pc = "emojis"
    /\ s_pc' = "returned"
    /\ s_text' = replace_newlines(s_text)
    /\ UNCHANGED s_in
    /\ UNCHANGED <<evars, fvars, bvars>>

SNext ==
    \/ RemoveUrls
    \/ RemoveEmojis
    \/ ReplaceNewlines

\* C10: applied to an input that is no text, the sanitizer returns the empty
\* string and does not raise.
C10_SanitizerIsTotal ==
    (s_in.kind # "str" /\ s_pc # "start") =>
        (s_pc # "raised" /\ (s_pc = "returned" => s_text = <<>>))

\* ----------------------------- ExtractFeatures.extract_features, lines 99-141

\* One attempt of make_request for the row at hand, inside the try block.
BatchAttempt(o) ==
    /\ b_pc = "loop" /\ b_i <= b_n
    /\ IF o \in Parseable
       THEN /\ collector' = Append(collector, one_row(b_i, json_loads(o)))
            /\ b_log' = Append(b_log, o)
            /\ b_i' = b_i + 1 /\ b_tries' = 0 /\ b_pc' = "loop"
       ELSE IF o \in Completions \/ gives_up(o, b_tries + 1)
            THEN IF caught(IF o \in Completions THEN "JSONDecodeError" ELSE o)
                 THEN /\ collector' = Append(collector, empty_frame)
                      /\ b_log' = Append(b_log, o)
                      /\ b_i' = b_i + 1 /\ b_tries' = 0 /\ b_pc' = "loop"
                 ELSE /\ b_pc' = "raised"
                      /\ UNCHANGED <<collector, b_log, b_i, b_tries>>
            ELSE /\ b_tries' = b_tries + 1
                 /\ UNCHANGED <<collector, b_log, b_i, b_pc>>
    /\ UNCHANGED <<b_n, expanded_tweets>>
    /\ UNCHANGED <<evars, fvars, svars>>

\* Lines 137-141: the two concatenations and the return.
BatchReturn ==
    /\ b_pc = "loop" /\ b_i > b_n
    /\ IF collector = <<>>
       THEN \* pd.concat([]) raises ValueError
            b_pc' = "raised" /\ expanded_tweets' = expanded_tweets
       ELSE /\ expanded_tweets' = concat_columns(b_n, concat_rows(collector))
            /\ b_pc' = "returned"
    /\ UNCHANGED <<b_n, b_i, b_tries, collector, b_log>>
    /\ UNCHANGED <<evars, fvars, svars>>

BNext ==
    \/ \E o \in Outcomes : BatchAttempt(o)
    \/ BatchReturn

\* C16: over n tweets extract_features returns n rows, and row i carries
\* what tweet i's own completion held, or no classification field when
\* tweet i's call or parse failed; no row carries what another tweet's
\* completion held.
C16_ResultsAligned ==
    b_pc = "returned" =>
        /\ Len(expanded_tweets) = b_n
        /\ \A i \in 1..b_n :
              /\ expanded_tweets[i].tweet = i
              /\ expanded_tweets[i].features =
                    IF b_log[i] \in Parseable
                    THEN one_row(i, json_loads(b_log[i]))[1]
                    ELSE NoFeatures

InitBatch == EQuiet /\ FQuiet /\ SQuiet /\ BInit

SpecBatch == InitBatch /\ [][BNext]_vars

InitSanitize == EQuiet /\ FQuiet /\ SInit /\ BQuiet

SpecSanitize == InitSanitize /\ [][SNext]_vars
====
